---------------------------- MODULE Spec2Model ----------------------------
(***************************************************************************)
(* Verification model of the UNS deployment orchestrator (Deployer,        *)
(* src/src/deployer.js) and of the MintingManager router                   *)
(* (src/unnamed/part_000).                                                 *)
(*                                                                         *)
(* Strings that the code inspects character by character (tags) are        *)
(* sequences of one-character strings.  A JSON object is a function whose  *)
(* domain is the set of keys it holds; a key whose value is `undefined`    *)
(* is an absent key (JSON.stringify drops it).                             *)
(***************************************************************************)
EXTENDS Integers, Sequences, FiniteSets, TLC

VARIABLES
    store,      \* the persisted document `${chainId}.json` of the active network
    pc,         \* position of the session: idle, ensure, run, saveWait, final, done, failed
    tags,       \* the `tags` argument of the running execute call
    cur,        \* index in this.tasks of the task being executed
    step,       \* index of the step of the running task
    trace,      \* calls made on the tasks by the running execute call, in order
    result,     \* outcome of the last call: kind (none/config/error/saved) and payload
    saveCfg,    \* `config` local of saveContractConfig: the document read before the wait
    saveArgs,   \* arguments of the saveContractConfig call in flight
    runNo,      \* number of execute calls started
    startStore, \* the persisted document when the running execute call started
    deployed,   \* programs deployed on the ledger by the running execute call
    persisted,  \* records written by the tasks of this call that ran to completion
    height,     \* block height of the ledger
    caller,     \* "execute" or "direct": who drives saveContractConfig
    rerun,      \* the running execute call repeats the tags of the call before it
    peer,       \* a second session on the same network id: its saveContractConfig call
    initialized, \* MintingManager: the initializer has run
    owner,      \* MintingManager: the owner, as a set of at most one address
    tlds,       \* MintingManager: _tlds, TLD id -> label, for the registered TLDs
    minters,    \* MintingManager: addresses holding the minting role
    unsTokens,  \* UnsRegistry: minted id -> owner and records
    cnsTokens,  \* CryptoMinter: label minted under .crypto -> owner
    cnsRecords, \* CryptoResolver: token id -> keys preconfigured
    resolver,   \* MintingManager: the resolver CryptoResolver points to
    mints,      \* number of names minted through the router
    last        \* the last router call and its outcome

deployerVars == <<store, pc, tags, cur, step, trace, result, saveCfg, saveArgs,
                  runNo, startStore, deployed, persisted, height, caller, rerun,
                  peer>>

routerVars == <<initialized, owner, tlds, minters, unsTokens, cnsTokens,
                cnsRecords, resolver, mints, last>>

vars == <<deployerVars, routerVars>>

-----------------------------------------------------------------------------
(* Bounds of the model *)

MaxTags == 2
MaxRuns == 2
MaxHeight == 3
MaxLogs == 2
MaxSaves == 2
MaxMints == 1

-----------------------------------------------------------------------------
(* Strings *)

Max(a, b) == IF a >= b THEN a ELSE b

UpperAlphabet == <<"A","B","C","D","E","F","G","H","I","J","K","L","M",
                   "N","O","P","Q","R","S","T","U","V","W","X","Y","Z">>
LowerAlphabet == <<"a","b","c","d","e","f","g","h","i","j","k","l","m",
                   "n","o","p","q","r","s","t","u","v","w","x","y","z">>

\* The lower-case letter of each upper-case letter
UpperToLower ==
    [c \in {UpperAlphabet[k] : k \in DOMAIN UpperAlphabet} |->
        LowerAlphabet[CHOOSE k \in DOMAIN UpperAlphabet : UpperAlphabet[k] = c]]

LowerChar(c) == IF c \in DOMAIN UpperToLower THEN UpperToLower[c] ELSE c

toLowerCaseIdentity(s) == s

\* String.prototype.toLowerCase as used in execute
toLowerCase(s) == [k \in DOMAIN s |-> LowerChar(s[k])]


-----------------------------------------------------------------------------
(* The persisted document and its JSON objects *)

\* chainId of the active network (network.config.chainId)
ChainId == 31337

Programs == {"CNSRegistry", "UNSRegistry", "MintingManager"}

EmptyObj == [n \in {} |-> 0]

\* Document shapes found on disk: no file, a zero-length file, a file that
\* JSON.parse rejects, a JSON document holding `contracts`
Absent == [kind |-> "absent", contracts |-> EmptyObj]
EmptyFile == [kind |-> "empty", contracts |-> EmptyObj]
Malformed == [kind |-> "malformed", contracts |-> EmptyObj]
Json(contracts) == [kind |-> "json", contracts |-> contracts]

getDeployConfigRecovering(s) ==
    IF s.kind = "json" THEN [ok |-> TRUE, contracts |-> s.contracts]
    ELSE [ok |-> TRUE, contracts |-> EmptyObj]

\* getDeployConfig: `{}` for an absent or zero-length file, else JSON.parse,
\* which throws on a malformed document (ok = FALSE)
getDeployConfig(s) ==
    CASE s.kind \in {"absent", "empty"} -> [ok |-> TRUE, contracts |-> EmptyObj]
      [] s.kind = "malformed" -> [ok |-> FALSE, contracts |-> EmptyObj]
      [] OTHER -> [ok |-> TRUE, contracts |-> s.contracts]

\* lodash merge on arrays: index-wise, positions beyond the source keep the
\* destination's values
MergeArray(a, b) ==
    [k \in 1..Max(Len(a), Len(b)) |-> IF k <= Len(b) THEN b[k] ELSE a[k]]

MergeReceiptKeepOld(o, s) == o

\* lodash merge on two receipts (objects with the keys blockNumber and logs)
MergeReceipt(o, s) ==
    [blockNumber |-> s.blockNumber, logs |-> MergeArray(o.logs, s.logs)]

MergeEntryShallow(o, s) == s

\* lodash merge on two records of one program: keys of the source win,
\* nested objects and arrays are merged recursively
MergeEntry(o, s) ==
    [f \in (DOMAIN o) \cup (DOMAIN s) |->
        IF f \notin DOMAIN s THEN o[f]
        ELSE IF f \notin DOMAIN o THEN s[f]
        ELSE IF f = "transaction" THEN MergeReceipt(o[f], s[f])
        ELSE IF f = "legacyAddresses" THEN MergeArray(o[f], s[f])
        ELSE s[f]]

MergeOverwrite(contracts, name, src) == [n \in {name} |-> src]

\* merge(config, {contracts: {[name]: src}})
Merge(contracts, name, src) ==
    [n \in (DOMAIN contracts) \cup {name} |->
        IF n # name THEN contracts[n]
        ELSE IF n \in DOMAIN contracts THEN MergeEntry(contracts[n], src)
        ELSE src]

\* The object literal of saveContractConfig; impl and receipt are sets of at
\* most one element (empty: the value is undefined)
SourceEntry(address, impl, receipt) ==
    [f \in {"address"} \cup (IF impl = {} THEN {} ELSE {"implementation"})
                       \cup (IF receipt = {} THEN {} ELSE {"transaction"}) |->
        IF f = "address" THEN address
        ELSE IF f = "implementation" THEN CHOOSE a \in impl : TRUE
        ELSE CHOOSE r \in receipt : TRUE]

-----------------------------------------------------------------------------
(* getNetworkConfig *)

HexDigits == <<"0","1","2","3","4","5","6","7","8","9","a","b","c","d","e","f">>

RECURSIVE HexDigitsOf(_)
HexDigitsOf(n) ==
    IF n < 16 THEN <<HexDigits[n + 1]>>
    ELSE Append(HexDigitsOf(n \div 16), HexDigits[(n % 16) + 1])

\* ethers.BigNumber.from(n).toHexString(): "0x" and an even number of digits
toHexString(n) ==
    LET d == HexDigitsOf(n)
    IN  <<"0", "x">> \o (IF Len(d) % 2 = 1 THEN <<"0">> \o d ELSE d)

ZeroBlock == <<"0", "x", "0">>

deploymentBlock(value) ==
    IF "transaction" \in DOMAIN value
    THEN toHexString(value["transaction"].blockNumber)
    ELSE ZeroBlock

legacyAddressesOfRecord(value) ==
    IF "legacyAddresses" \in DOMAIN value THEN value["legacyAddresses"] ELSE <<>>

\* emptyConfig.legacyAddresses, which the projection never overrides
legacyAddressesView(value) == <<>>

\* One entry of `contracts` in getNetworkConfig
ViewEntry(value) ==
    [f \in {"legacyAddresses", "deploymentBlock"}
           \cup ((DOMAIN value) \cap {"address", "implementation"}) |->
        IF f = "legacyAddresses" THEN legacyAddressesView(value)
        ELSE IF f = "deploymentBlock" THEN deploymentBlock(value)
        ELSE value[f]]

\* getNetworkConfig: {networks: {[chainId]: {contracts}}}, or the exception
\* of getDeployConfig
getNetworkConfig(s) ==
    LET config == getDeployConfig(s)
    IN  IF ~config.ok THEN [kind |-> "error", reason |-> "SyntaxError"]
        ELSE [kind |-> "config",
              networks |-> [c \in {ChainId} |->
                  [contracts |-> [n \in DOMAIN config.contracts |->
                                     ViewEntry(config.contracts[n])]]]]

-----------------------------------------------------------------------------
(* Tasks *)

tagCns == <<"c", "n", "s">>
tagUns == <<"u", "n", "s">>
tagFull == <<"f", "u", "l", "l">>
tagUpgrade == <<"u", "p", "g", "r", "a", "d", "e">>

\* this.tasks, in registration order
Tasks == <<"deployCNSTask", "deployUNSTask", "configureCNSTask", "upgradeUNSTask">>

\* task.tags of each task
TaskTags == <<{tagCns, tagFull}, {tagUns, tagFull}, {tagCns, tagFull}, {tagUpgrade}>>

\* Programs a task's ensureDependencies looks up in the store
TaskDeps == <<{}, {"CNSRegistry"}, {"CNSRegistry", "MintingManager"}, {"UNSRegistry"}>>

\* Steps of a task's run: deploy a program and save it, send a configuration
\* transaction, upgrade a program and save its new implementation
TaskSteps ==
    << <<[kind |-> "deploy", name |-> "CNSRegistry"]>>,
       <<[kind |-> "deploy", name |-> "UNSRegistry"],
         [kind |-> "deploy", name |-> "MintingManager"]>>,
       <<[kind |-> "configure", name |-> "CNSRegistry"]>>,
       <<[kind |-> "upgrade", name |-> "UNSRegistry"]>> >>

\* Programs deployed behind a proxy are saved with an implementation address
Proxied == {"UNSRegistry", "MintingManager"}

Recorded(contracts, name) ==
    name \in DOMAIN contracts /\ "address" \in DOMAIN contracts[name]

\* A deploy step skips a program the record already holds
SkipsDeploy(contracts, name) == Recorded(contracts, name)

-----------------------------------------------------------------------------
(* execute *)

\* `tags = tags || []`
TagsOrEmpty(t) == IF t.given THEN t.list ELSE <<>>

SelectedCaseSensitive(t, i) ==
    \E k \in DOMAIN TagsOrEmpty(t) : TagsOrEmpty(t)[k] \in TaskTags[i]

\* tags.some(t => task.tags.includes(t.toLowerCase()))
Selected(t, i) ==
    \E k \in DOMAIN TagsOrEmpty(t) : toLowerCase(TagsOrEmpty(t)[k]) \in TaskTags[i]

NextSelectedByTagOrder(t, i) ==
    LET rest == {j \in DOMAIN Tasks :
                    /\ Selected(t, j)
                    /\ \A e \in DOMAIN trace : trace[e].task # j}
        rank(j) == CHOOSE k \in DOMAIN TagsOrEmpty(t) :
                      /\ toLowerCase(TagsOrEmpty(t)[k]) \in TaskTags[j]
                      /\ \A m \in 1..(k - 1) :
                            toLowerCase(TagsOrEmpty(t)[m]) \notin TaskTags[j]
    IN  IF rest = {} THEN Len(Tasks) + 1
        ELSE CHOOSE j \in rest :
                \A m \in rest : rank(j) < rank(m) \/ (rank(j) = rank(m) /\ j <= m)

\* `for (const task of this.tasks)` with the `continue` of unselected tasks:
\* the first selected task at or after position i, Len(Tasks) + 1 if none
NextSelected(t, i) ==
    LET rest == {j \in i..Len(Tasks) : Selected(t, j)}
    IN  IF rest = {} THEN Len(Tasks) + 1
        ELSE CHOOSE j \in rest : \A m \in rest : j <= m

AfterFailureContinue(t, i) ==
    LET j == NextSelected(t, i + 1)
    IN  [pc |-> IF j > Len(Tasks) THEN "final" ELSE "ensure", cur |-> j]

\* An exception of ensureDependencies or run is not caught: execute rejects
AfterFailure(t, i) == [pc |-> "failed", cur |-> i]

Error(reason) == [kind |-> "error", reason |-> reason]

NoResult == [kind |-> "none"]

NoArgs == [name |-> "", address |-> 0, impl |-> {}, block |-> 0, receipt |-> {}]

\* The second session before it calls saveContractConfig
NoPeer == [pc |-> "idle", cfg |-> EmptyObj, args |-> NoArgs]

\* Records written since the call started
WrittenSince(start, now) ==
    LET a == getDeployConfig(start).contracts
        b == getDeployConfig(now).contracts
    IN  [n \in {m \in DOMAIN b : m \notin DOMAIN a \/ a[m] # b[m]} |-> b[n]]

-----------------------------------------------------------------------------
(* MintingManager: identifiers and labels *)

\* The root id 0x0 of the namehash
Root == <<>>

\* uint256(keccak256(abi.encodePacked(parent, keccak256(abi.encodePacked(label))))):
\* an injective pairing of the parent id and the label
Hash(parent, label) == <<parent, label>>

labelCrypto == <<"c", "r", "y", "p", "t", "o">>
labelWallet == <<"w", "a", "l", "l", "e", "t">>
labelCoin == <<"c", "o", "i", "n">>

\* The ids 0x0f4a10a4..., 0x1e3f482b..., 0x7674e728... of the three TLDs
CryptoTld == Hash(Root, labelCrypto)
WalletTld == Hash(Root, labelWallet)
CoinTld == Hash(Root, labelCoin)

\* A TLD id that initialize does not register
OtherTld == Hash(Root, <<"x">>)

FreePrefix == <<"u", "d", "t", "e", "s", "t", "d", "e", "v", "-">>

freeSLDLabelRaw(label) == label

\* _freeSLDLabel: 'udtestdev-' followed by the label
freeSLDLabel(label) == FreePrefix \o label

childIdUnchecked(tokenId, label) == [ok |-> TRUE, id |-> Hash(tokenId, label)]

\* _childId: requires a non-empty label
childId(tokenId, label) ==
    IF Len(label) = 0 THEN [ok |-> FALSE, id |-> Hash(tokenId, label)]
    ELSE [ok |-> TRUE, id |-> Hash(tokenId, label)]

validTldAny(tld) == TRUE

\* modifier validTld: bytes(_tlds[tld]).length > 0
validTld(tld) == tld \in DOMAIN tlds /\ Len(tlds[tld]) > 0

onlyMinterAny(sender) == TRUE

\* modifier onlyMinter of MinterRole: the caller holds the minting role
onlyMinter(sender) == sender \in minters

\* address(this) and address(0xdead)
This == "MintingManager"
Dead == "0xdead"

-----------------------------------------------------------------------------
(* MintingManager: the collaborators and the private mint functions *)

\* The state a call may change
World == [uns |-> unsTokens, cns |-> cnsTokens, rec |-> cnsRecords]

Ok(w) == [ok |-> TRUE, reason |-> "", w |-> w]
Revert(reason) == [ok |-> FALSE, reason |-> reason, w |-> World]

Put(f, k, v) == [x \in (DOMAIN f) \cup {k} |-> IF x = k THEN v ELSE f[x]]

RegistryMintOverwrite(w, to, id, keys) ==
    Ok([w EXCEPT !.uns = Put(w.uns, id, [owner |-> to, keys |-> keys])])

\* UnsRegistry.mint / safeMint / mintWithRecords / safeMintWithRecords, to a
\* recipient that accepts the token
RegistryMint(w, to, id, keys) ==
    IF id \in DOMAIN w.uns THEN Revert("Registry: TOKEN_ALREADY_MINTED")
    ELSE Ok([w EXCEPT !.uns = Put(w.uns, id, [owner |-> to, keys |-> keys])])

\* CryptoMinter.mintSLD / safeMintSLD / mintSLDWithResolver /
\* safeMintSLDWithResolver, to a recipient that accepts the token
LegacyMint(w, to, label) ==
    IF Len(label) = 0 THEN Revert("CNS: LABEL_REJECTED")
    ELSE IF label \in DOMAIN w.cns THEN Revert("CNS: TOKEN_ALREADY_MINTED")
    ELSE Ok([w EXCEPT !.cns = Put(w.cns, label, to)])

\* The resolver handed to initialize, and another address setResolver may be
\* given, whose preconfigure reverts
GoodResolver == "CryptoResolver"
BadResolver == "0xbad"

\* CryptoResolver.preconfigure(keys, values, tokenId)
Preconfigure(w, keys, id) ==
    IF resolver = GoodResolver THEN Ok([w EXCEPT !.rec = Put(w.rec, id, keys)])
    ELSE Revert("Resolver: PRECONFIGURE_FAILED")

mintSLDPrivateNoLegacy(to, tld, label) ==
    LET c == childId(tld, label)
    IN  IF ~c.ok THEN Revert("MintingManager: LABEL_EMPTY")
        ELSE RegistryMint(World, to, c.id, <<>>)

\* _mintSLD and _safeMintSLD
mintSLDPrivate(to, tld, label) ==
    IF tld = CryptoTld
    THEN LegacyMint(World, to, label)
    ELSE LET c == childId(tld, label)
         IN  IF ~c.ok THEN Revert("MintingManager: LABEL_EMPTY")
             ELSE RegistryMint(World, to, c.id, <<>>)

\* _mintSLDWithRecords and _safeMintSLDWithRecords
mintSLDWithRecordsPrivateTwoCalls(to, tld, label, keys) ==
    LET c == childId(tld, label)
    IN  IF ~c.ok THEN Revert("MintingManager: LABEL_EMPTY")
        ELSE IF tld = CryptoTld
        THEN LET m == LegacyMint(World, to, label)
                 r == Preconfigure(m.w, keys, c.id)
             IN  IF ~m.ok THEN m
                 ELSE IF Len(keys) > 0
                 THEN (IF r.ok THEN r ELSE [r EXCEPT !.w = m.w])
                 ELSE m
        ELSE RegistryMint(World, to, c.id, keys)

mintSLDWithRecordsPrivate(to, tld, label, keys) ==
    LET c == childId(tld, label)
    IN  IF ~c.ok THEN Revert("MintingManager: LABEL_EMPTY")
        ELSE IF tld = CryptoTld
        THEN LET m == LegacyMint(World, to, label)
             IN  IF ~m.ok THEN m
                 ELSE IF Len(keys) > 0 THEN Preconfigure(m.w, keys, c.id)
                 ELSE m
        ELSE RegistryMint(World, to, c.id, keys)

GuardedNoRole(sender, tld, needsMinter, body) ==
    IF ~validTld(tld) THEN Revert("MintingManager: TLD_NOT_VALID")
    ELSE body

\* The modifiers of an external function, in the order they are written
Guarded(sender, tld, needsMinter, body) ==
    IF needsMinter /\ ~onlyMinter(sender) THEN Revert("MinterRole: CALLER_IS_NOT_MINTER")
    ELSE IF ~validTld(tld) THEN Revert("MintingManager: TLD_NOT_VALID")
    ELSE body

-----------------------------------------------------------------------------
(* MintingManager: relayed calls *)

\* _SIG_MINT ... _SIG_SAFE_MINT_WITH_RECORDS_DATA
SigMint == "0xae2ad903"
SigSafeMint == "0x4c1819e0"
SigSafeMintData == "0x58839d6b"
SigMintWithRecords == "0x39ccf4d0"
SigSafeMintWithRecords == "0x27bbd225"
SigSafeMintWithRecordsData == "0x6a2d2256"

\* bytes4(keccak256('claim(uint256,string)')) and
\* bytes4(keccak256('setResolver(address)'))
SigClaim == "0x268b15ed"
SigSetResolver == "0x4e543b26"

verifyRelaySignerAny(signer) == TRUE

\* _verifyRelaySigner: require(isMinter(signer))
verifyRelaySigner(signer) == signer \in minters

verifyRelayCallAny(funcSig) == TRUE

\* _verifyRelayCall: the selector is one of the six constants
verifyRelayCall(funcSig) ==
    \/ funcSig = SigMint
    \/ funcSig = SigSafeMint
    \/ funcSig = SigSafeMintData
    \/ funcSig = SigMintWithRecords
    \/ funcSig = SigSafeMintWithRecords
    \/ funcSig = SigSafeMintWithRecordsData

-----------------------------------------------------------------------------
(* Initial states *)

tagUnsMixed == <<"U", "n", "s">>
tagFullUpper == <<"F", "U", "L", "L">>
tagOther == <<"x">>

\* Tags a caller may request
TagPool == {tagUnsMixed, tagFullUpper, tagUpgrade, tagOther}

RECURSIVE SeqsUpTo(_, _)
SeqsUpTo(S, n) ==
    IF n = 0 THEN {<<>>}
    ELSE LET shorter == SeqsUpTo(S, n - 1)
         IN  shorter \cup {Append(q, x) : q \in {r \in shorter : Len(r) = n - 1}, x \in S}

\* The `tags` argument: omitted, or an array of at most MaxTags tags
TagArgs ==
    {[given |-> FALSE, list |-> <<>>]}
        \cup {[given |-> TRUE, list |-> l] : l \in SeqsUpTo(TagPool, MaxTags)}

RecCNS == [address |-> 11, transaction |-> [blockNumber |-> 1, logs |-> <<1, 1>>]]
RecUNS == [address |-> 12, implementation |-> 13, legacyAddresses |-> <<14, 15>>,
           transaction |-> [blockNumber |-> 2, logs |-> <<2>>]]
RecMM == [address |-> 16, implementation |-> 17]

\* Documents a session may find on disk when it starts
InitialStores ==
    {Absent, EmptyFile, Malformed, Json(EmptyObj),
     Json([n \in {"CNSRegistry"} |-> RecCNS]),
     Json([n \in {"UNSRegistry", "MintingManager"} |->
              IF n = "UNSRegistry" THEN RecUNS ELSE RecMM]),
     Json([n \in Programs |->
              IF n = "CNSRegistry" THEN RecCNS
              ELSE IF n = "UNSRegistry" THEN RecUNS ELSE RecMM])}

\* Documents the sessions that run execute start from
ExecStores == {d \in InitialStores : d.kind \in {"absent", "malformed"}
                                      \/ "CNSRegistry" \in DOMAIN d.contracts}

InitDeployer(who, stores) ==
    /\ store \in stores
    /\ pc = "idle"
    /\ tags = [given |-> FALSE, list |-> <<>>]
    /\ cur = 0
    /\ step = 0
    /\ trace = <<>>
    /\ result = NoResult
    /\ saveCfg = EmptyObj
    /\ saveArgs = NoArgs
    /\ runNo = 0
    /\ startStore = store
    /\ deployed = {}
    /\ persisted = EmptyObj
    /\ height = 2
    /\ caller = who
    /\ peer = NoPeer
    /\ rerun = FALSE

NoSelector == "none"

NoCall == [op |-> "none", sender |-> "", sel |-> NoSelector, tld |-> Root,
           label |-> <<>>, ok |-> FALSE, reason |-> ""]

\* The router before its initializer has run, on a registry holding `held`
InitRouter(held) ==
    /\ initialized = FALSE
    /\ owner = {}
    /\ tlds = EmptyObj
    /\ minters = {}
    /\ unsTokens = held
    /\ cnsTokens = EmptyObj
    /\ cnsRecords = EmptyObj
    /\ resolver = "0x0"
    /\ mints = 0
    /\ last = NoCall

-----------------------------------------------------------------------------
(* execute, one action per segment between two awaits *)

Event(i, call) == [task |-> i, call |-> call]

Fail(reason) ==
    LET next == AfterFailure(tags, cur)
    IN  /\ pc' = next.pc
        /\ cur' = next.cur
        /\ result' = Error(reason)

\* execute(tags): start of the call, up to the first selected task
Execute(t) ==
    /\ caller = "execute"
    /\ pc \in {"idle", "done", "failed"}
    /\ runNo < MaxRuns
    /\ runNo' = runNo + 1
    /\ tags' = t
    /\ trace' = <<>>
    /\ result' = NoResult
    /\ startStore' = store
    /\ deployed' = {}
    /\ persisted' = EmptyObj
    /\ step' = 0
    /\ LET j == NextSelected(t, 1)
       IN  /\ cur' = j
           /\ pc' = IF j > Len(Tasks) THEN "final" ELSE "ensure"
    /\ rerun' = (runNo > 0 /\ t = tags)
    /\ saveArgs' = NoArgs
    /\ UNCHANGED <<store, saveCfg, height, caller>>
    /\ UNCHANGED peer
    /\ UNCHANGED routerVars

\* task.ensureDependencies(this, config), then the call of task.run
EnsureDependencies ==
    /\ pc = "ensure"
    /\ LET config == getDeployConfig(store)
       IN  IF TaskDeps[cur] = {}
           THEN /\ trace' = trace \o <<Event(cur, "ensureDependencies"), Event(cur, "run")>>
                /\ pc' = "run"
                /\ step' = 1
                /\ UNCHANGED <<cur, result>>
           ELSE IF ~config.ok
           THEN /\ trace' = Append(trace, Event(cur, "ensureDependencies"))
                /\ Fail("SyntaxError")
                /\ UNCHANGED step
           ELSE IF \E d \in TaskDeps[cur] : ~Recorded(config.contracts, d)
           THEN /\ trace' = Append(trace, Event(cur, "ensureDependencies"))
                /\ Fail("DependencyError")
                /\ UNCHANGED step
           ELSE /\ trace' = trace \o <<Event(cur, "ensureDependencies"), Event(cur, "run")>>
                /\ pc' = "run"
                /\ step' = 1
                /\ UNCHANGED <<cur, result>>
    /\ UNCHANGED <<store, tags, saveCfg, saveArgs, runNo, startStore, deployed,
                   persisted, height, caller, rerun>>
    /\ UNCHANGED peer
    /\ UNCHANGED routerVars

CurStep == TaskSteps[cur][step]

InRun == pc = "run" /\ step <= Len(TaskSteps[cur])

\* A step reads the record and finds it malformed
StepParseFail ==
    /\ InRun
    /\ CurStep.kind \in {"deploy", "upgrade"}
    /\ ~getDeployConfig(store).ok
    /\ Fail("SyntaxError")
    /\ UNCHANGED <<store, tags, step, trace, saveCfg, saveArgs, runNo, startStore,
                   deployed, persisted, height, caller, rerun>>
    /\ UNCHANGED peer
    /\ UNCHANGED routerVars

\* A deploy step finds its program recorded and does nothing
StepSkip ==
    /\ InRun
    /\ CurStep.kind = "deploy"
    /\ getDeployConfig(store).ok
    /\ SkipsDeploy(getDeployConfig(store).contracts, CurStep.name)
    /\ step' = step + 1
    /\ UNCHANGED <<store, pc, tags, cur, trace, result, saveCfg, saveArgs, runNo,
                   startStore, deployed, persisted, height, caller, rerun>>
    /\ UNCHANGED peer
    /\ UNCHANGED routerVars

\* The ledger rejects the transaction of the step
StepTxFail ==
    /\ InRun
    /\ \/ CurStep.kind = "configure"
       \/ /\ getDeployConfig(store).ok
          /\ CurStep.kind = "deploy" =>
                ~SkipsDeploy(getDeployConfig(store).contracts, CurStep.name)
    /\ Fail("TransactionError")
    /\ UNCHANGED <<store, tags, step, trace, saveCfg, saveArgs, runNo, startStore,
                   deployed, persisted, height, caller, rerun>>
    /\ UNCHANGED peer
    /\ UNCHANGED routerVars

\* A deploy step deploys its program and calls saveContractConfig, which
\* reads the record and waits for the receipt
StepDeploy ==
    /\ InRun
    /\ CurStep.kind = "deploy"
    /\ getDeployConfig(store).ok
    /\ ~SkipsDeploy(getDeployConfig(store).contracts, CurStep.name)
    /\ height < 2 + MaxHeight
    /\ height' = height + 1
    /\ deployed' = deployed \cup {CurStep.name}
    /\ saveCfg' = getDeployConfig(store).contracts
    /\ saveArgs' = [name |-> CurStep.name,
                    address |-> 100 + height',
                    impl |-> IF CurStep.name \in Proxied THEN {200 + height'} ELSE {},
                    block |-> height', receipt |-> {}]
    /\ pc' = "saveWait"
    /\ UNCHANGED <<store, tags, cur, step, trace, result, runNo, startStore,
                   persisted, caller, rerun>>
    /\ UNCHANGED peer
    /\ UNCHANGED routerVars

\* A configuration transaction is sent and confirmed
StepConfigure ==
    /\ InRun
    /\ CurStep.kind = "configure"
    /\ height < 2 + MaxHeight
    /\ height' = height + 1
    /\ step' = step + 1
    /\ UNCHANGED <<store, pc, tags, cur, trace, result, saveCfg, saveArgs, runNo,
                   startStore, deployed, persisted, caller, rerun>>
    /\ UNCHANGED peer
    /\ UNCHANGED routerVars

\* An upgrade step upgrades its program in place and saves the new
\* implementation; the handle may carry the upgrade transaction
StepUpgrade ==
    /\ InRun
    /\ CurStep.kind = "upgrade"
    /\ getDeployConfig(store).ok
    /\ height < 2 + MaxHeight
    /\ height' = height + 1
    /\ LET contracts == getDeployConfig(store).contracts
           address == IF Recorded(contracts, CurStep.name)
                      THEN contracts[CurStep.name]["address"] ELSE 0
           args == [name |-> CurStep.name, address |-> address,
                    impl |-> {200 + height'}, block |-> height', receipt |-> {}]
       IN  \E hasTx \in BOOLEAN :
              IF hasTx
              THEN /\ saveCfg' = contracts
                   /\ saveArgs' = args
                   /\ pc' = "saveWait"
                   /\ UNCHANGED <<store, step>>
              ELSE /\ store' = Json(Merge(contracts, args.name,
                                          SourceEntry(args.address, args.impl, {})))
                   /\ step' = step + 1
                   /\ saveArgs' = args
                   /\ UNCHANGED <<pc, saveCfg>>
    /\ UNCHANGED <<tags, cur, trace, result, runNo, startStore, deployed,
                   persisted, caller, rerun>>
    /\ UNCHANGED peer
    /\ UNCHANGED routerVars

\* Number of logs a receipt may carry
LogCounts == IF caller = "direct" THEN 0..MaxLogs ELSE {1}

Receipt(block, k) == [blockNumber |-> block, logs |-> [i \in 1..k |-> block]]

WriteRereading(cfg, args, receipt) ==
    Json(Merge(getDeployConfigRecovering(store).contracts, args.name,
               SourceEntry(args.address, args.impl, {receipt})))

WriteBeforeWait(cfg, args, receipt) ==
    Json(Merge(cfg, args.name, SourceEntry(args.address, args.impl, {})))

\* The document saveContractConfig writes once the receipt has arrived
WriteAfterWait(cfg, args, receipt) ==
    Json(Merge(cfg, args.name, SourceEntry(args.address, args.impl, {receipt})))

\* deployTransaction.wait() resolves: merge and write
SaveWaitOk ==
    /\ pc = "saveWait"
    /\ \E k \in LogCounts :
          /\ store' = WriteAfterWait(saveCfg, saveArgs, Receipt(saveArgs.block, k))
          /\ saveArgs' = [saveArgs EXCEPT !.receipt = {Receipt(saveArgs.block, k)}]
    /\ saveCfg' = EmptyObj
    /\ IF caller = "execute"
       THEN /\ pc' = "run"
            /\ step' = step + 1
            /\ UNCHANGED result
       ELSE /\ pc' = "idle"
            /\ result' = [kind |-> "saved"]
            /\ UNCHANGED step
    /\ UNCHANGED <<tags, cur, trace, runNo, startStore, deployed, persisted,
                   height, caller, rerun>>
    /\ UNCHANGED peer
    /\ UNCHANGED routerVars

\* deployTransaction.wait() rejects: nothing is written
SaveWaitFail ==
    /\ pc = "saveWait"
    /\ saveCfg' = EmptyObj
    /\ UNCHANGED saveArgs
    /\ IF caller = "execute"
       THEN Fail("TransactionError")
       ELSE /\ pc' = "idle"
            /\ result' = Error("TransactionError")
            /\ UNCHANGED cur
    /\ UNCHANGED <<store, tags, step, trace, runNo, startStore, deployed,
                   persisted, height, caller, rerun>>
    /\ UNCHANGED peer
    /\ UNCHANGED routerVars

\* `await task.run(...)` resolves: on to the next selected task
RunComplete ==
    /\ pc = "run"
    /\ step > Len(TaskSteps[cur])
    /\ trace' = Append(trace, Event(cur, "runCompleted"))
    /\ persisted' = WrittenSince(startStore, store)
    /\ LET j == NextSelected(tags, cur + 1)
       IN  /\ cur' = j
           /\ pc' = IF j > Len(Tasks) THEN "final" ELSE "ensure"
    /\ step' = 0
    /\ UNCHANGED <<store, tags, result, saveCfg, saveArgs, runNo, startStore,
                   deployed, height, caller, rerun>>
    /\ UNCHANGED peer
    /\ UNCHANGED routerVars

\* `return this.getNetworkConfig()`
Finish ==
    /\ pc = "final"
    /\ result' = getNetworkConfig(store)
    /\ pc' = IF result'.kind = "error" THEN "failed" ELSE "done"
    /\ UNCHANGED <<store, tags, cur, step, trace, saveCfg, saveArgs, runNo,
                   startStore, deployed, persisted, height, caller, rerun>>
    /\ UNCHANGED peer
    /\ UNCHANGED routerVars

-----------------------------------------------------------------------------
(* saveContractConfig and getNetworkConfig called on the session directly *)

DirectAddresses == {21, 22}
DirectImpls == {{}, {23}}

\* saveContractConfig(name, contract, implAddress) up to its await
SaveContractConfig(name, address, hasTx, impl) ==
    /\ caller = "direct"
    /\ pc = "idle"
    /\ runNo < MaxSaves
    /\ runNo' = runNo + 1
    /\ height' = height + 1
    /\ startStore' = store
    /\ LET config == getDeployConfig(store)
           args == [name |-> name, address |-> address, impl |-> impl,
                    block |-> height', receipt |-> {}]
       IN  IF ~config.ok
           THEN /\ result' = Error("SyntaxError")
                /\ saveArgs' = args
                /\ UNCHANGED <<store, pc, saveCfg>>
           ELSE IF hasTx
           THEN /\ saveCfg' = config.contracts
                /\ saveArgs' = args
                /\ pc' = "saveWait"
                /\ result' = NoResult
                /\ UNCHANGED store
           ELSE /\ store' = Json(Merge(config.contracts, name,
                                       SourceEntry(address, impl, {})))
                /\ result' = [kind |-> "saved"]
                /\ saveArgs' = args
                /\ UNCHANGED <<pc, saveCfg>>
    /\ UNCHANGED <<tags, cur, step, trace, deployed, persisted, caller, rerun>>
    /\ UNCHANGED peer
    /\ UNCHANGED routerVars

\* getNetworkConfig()
GetNetworkConfig ==
    /\ caller = "direct"
    /\ pc = "idle"
    /\ result' = getNetworkConfig(store)
    /\ UNCHANGED <<store, pc, tags, cur, step, trace, saveCfg, saveArgs, runNo,
                   startStore, deployed, persisted, height, caller, rerun>>
    /\ UNCHANGED peer
    /\ UNCHANGED routerVars

-----------------------------------------------------------------------------
(* Specifications *)

InitExec == InitDeployer("execute", ExecStores) /\ InitRouter(EmptyObj)

NextExec ==
    \/ pc \in {"idle", "done", "failed"} /\ \E t \in TagArgs : Execute(t)
    \/ EnsureDependencies
    \/ StepParseFail
    \/ StepSkip
    \/ StepTxFail
    \/ StepDeploy
    \/ StepConfigure
    \/ StepUpgrade
    \/ SaveWaitOk
    \/ SaveWaitFail
    \/ RunComplete
    \/ Finish

\* The steps of a call that has started
Proceed ==
    \/ EnsureDependencies
    \/ StepParseFail
    \/ StepSkip
    \/ StepTxFail
    \/ StepDeploy
    \/ StepConfigure
    \/ StepUpgrade
    \/ SaveWaitOk
    \/ SaveWaitFail
    \/ RunComplete
    \/ Finish

\* One session running execute calls
Spec == InitExec /\ [][NextExec]_vars

InitStore == InitDeployer("direct", InitialStores) /\ InitRouter(EmptyObj)

NextStore ==
    \/ \E name \in Programs, address \in DirectAddresses, hasTx \in BOOLEAN,
          impl \in DirectImpls : SaveContractConfig(name, address, hasTx, impl)
    \/ SaveWaitOk
    \/ SaveWaitFail
    \/ GetNetworkConfig

\* One session whose store operations are called directly
SpecStore == InitStore /\ [][NextStore]_vars

-----------------------------------------------------------------------------
(* Two sessions on the same network id *)

\* Programs neither session finds on disk when it starts
RaceNames == {"UNSRegistry", "MintingManager"}

RaceStores ==
    {Absent, EmptyFile, Json(EmptyObj), Json([n \in {"CNSRegistry"} |-> RecCNS])}

PeerAddress == 22

\* The second session's saveContractConfig(name, contract, implAddress) up to
\* its await: the document is read
PeerSave(name) ==
    /\ peer.pc = "idle"
    /\ height' = height + 1
    /\ LET config == getDeployConfig(store)
           args == [name |-> name, address |-> PeerAddress, impl |-> {},
                    block |-> height', receipt |-> {}]
       IN  peer' = IF config.ok
                   THEN [pc |-> "saveWait", cfg |-> config.contracts, args |-> args]
                   ELSE [pc |-> "failed", cfg |-> EmptyObj, args |-> args]
    /\ UNCHANGED <<store, pc, tags, cur, step, trace, result, saveCfg, saveArgs,
                   runNo, startStore, deployed, persisted, caller, rerun>>
    /\ UNCHANGED routerVars

\* The second session's wait resolves: merge into the document it read, write
PeerWaitOk ==
    /\ peer.pc = "saveWait"
    /\ LET receipt == Receipt(peer.args.block, 1)
       IN  /\ store' = WriteAfterWait(peer.cfg, peer.args, receipt)
           /\ peer' = [peer EXCEPT !.pc = "done", !.args.receipt = {receipt}]
    /\ UNCHANGED <<pc, tags, cur, step, trace, result, saveCfg, saveArgs, runNo,
                   startStore, deployed, persisted, height, caller, rerun>>
    /\ UNCHANGED routerVars

\* The second session's wait rejects: nothing is written
PeerWaitFail ==
    /\ peer.pc = "saveWait"
    /\ peer' = [peer EXCEPT !.pc = "failed"]
    /\ UNCHANGED <<store, pc, tags, cur, step, trace, result, saveCfg, saveArgs,
                   runNo, startStore, deployed, persisted, height, caller, rerun>>
    /\ UNCHANGED routerVars

InitRace == InitDeployer("direct", RaceStores) /\ InitRouter(EmptyObj)

NextRace ==
    \/ \E name \in RaceNames, hasTx \in BOOLEAN :
          SaveContractConfig(name, 21, hasTx, {})
    \/ SaveWaitOk
    \/ SaveWaitFail
    \/ \E name \in RaceNames : PeerSave(name)
    \/ PeerWaitOk
    \/ PeerWaitFail

\* Two sessions calling saveContractConfig on the same document
SpecRace == InitRace /\ [][NextRace]_vars

-----------------------------------------------------------------------------
(* Claims about execute *)

Range(q) == {q[k] : k \in DOMAIN q}

\* The requested tags, lower-cased
RequestedLower == {toLowerCase(x) : x \in Range(TagsOrEmpty(tags))}

\* The task's tag set holds a lower-cased requested tag
TagsIntersect(i) == RequestedLower \cap TaskTags[i] # {}

Invoked(i, call) == \E e \in DOMAIN trace : trace[e] = Event(i, call)

\* The loop over this.tasks has run to its end
LoopDone == runNo > 0 /\ cur > Len(Tasks)

\* C1: execute invokes a task (its ensureDependencies and its run) only if a
\* requested tag, lower-cased, is in the task's tag set; once the loop has run
\* to its end every such task has been invoked; with tags omitted or empty no
\* task is invoked.
C1_TagFilter ==
    /\ \A e \in DOMAIN trace : TagsIntersect(trace[e].task)
    /\ LoopDone =>
          \A i \in DOMAIN Tasks :
              TagsIntersect(i) <=>
                  (Invoked(i, "ensureDependencies") /\ Invoked(i, "run"))
    /\ (~tags.given \/ tags.list = <<>>) => trace = <<>>

\* A finished call that ran one task and left another out, selected by a tag
\* written in upper case
C1_Witness ==
    /\ pc = "done"
    /\ \E i, j \in DOMAIN Tasks :
          /\ Invoked(i, "run")
          /\ ~Invoked(j, "run")
          /\ \E x \in Range(tags.list) : x # toLowerCase(x) /\ toLowerCase(x) \in TaskTags[i]

\* C2: the selected tasks run one after the other in registration order
\* (deployCNS, deployUNS, configureCNS, upgradeUNS) whatever the order of the
\* tags: ensureDependencies of a task comes right before its run, and the run
\* of a task has completed before ensureDependencies of the next one.
C2_SequentialOrder ==
    /\ Tasks = <<"deployCNSTask", "deployUNSTask", "configureCNSTask", "upgradeUNSTask">>
    /\ \A e \in DOMAIN trace :
          /\ trace[e].call = "run" =>
                e > 1 /\ trace[e - 1] = Event(trace[e].task, "ensureDependencies")
          /\ trace[e].call = "runCompleted" =>
                e > 1 /\ trace[e - 1] = Event(trace[e].task, "run")
          /\ (trace[e].call = "ensureDependencies" /\ e > 1) =>
                /\ trace[e - 1].call = "runCompleted"
                /\ trace[e - 1].task < trace[e].task

\* Two tasks ran to completion although the tags named them in reverse order
C2_Witness ==
    /\ pc = "done"
    /\ tags.list = <<tagUpgrade, tagUnsMixed>>
    /\ Invoked(2, "runCompleted")
    /\ Invoked(4, "runCompleted")
    /\ Len(trace) = 6

\* C3: a failure of ensureDependencies or run ends execute with that failure,
\* no later task is started, and every record persisted by the tasks that
\* completed before is still in the persisted record, unchanged.
C3_AbortNoRollback ==
    /\ result.kind = "error" => pc = "failed"
    /\ (pc = "failed" /\ cur <= Len(Tasks)) =>
          /\ result.kind = "error"
          /\ trace # <<>>
          /\ trace[Len(trace)].task = cur
          /\ trace[Len(trace)].call # "runCompleted"
          /\ \A e \in DOMAIN trace : trace[e].task <= cur
          /\ \A n \in DOMAIN persisted :
                /\ n \in DOMAIN getDeployConfig(store).contracts
                /\ getDeployConfig(store).contracts[n] = persisted[n]

\* A task failed after an earlier task persisted a record and before a later
\* selected task
C3_Witness ==
    /\ pc = "failed"
    /\ cur <= Len(Tasks)
    /\ DOMAIN persisted # {}
    /\ NextSelected(tags, cur + 1) <= Len(Tasks)

\* C4: a second execute with the same tags against the record the first one
\* left does not deploy a program the record already holds and leaves its
\* recorded address unchanged.
C4_NoRedeploy ==
    rerun =>
        \A p \in Programs :
            Recorded(getDeployConfig(startStore).contracts, p) =>
                /\ p \notin deployed
                /\ Recorded(getDeployConfig(store).contracts, p)
                /\ getDeployConfig(store).contracts[p]["address"]
                      = getDeployConfig(startStore).contracts[p]["address"]

\* The second call ran a task over a program the first call deployed, and
\* deployed another one
C4_Witness ==
    /\ rerun
    /\ deployed # {}
    /\ \E p \in Programs :
          /\ Recorded(getDeployConfig(startStore).contracts, p)
          /\ getDeployConfig(startStore).contracts[p]["address"] > 100
          /\ \E i \in DOMAIN Tasks :
                /\ Invoked(i, "runCompleted")
                /\ \E k \in DOMAIN TaskSteps[i] : TaskSteps[i][k].name = p

\* C8: with a malformed persisted record every execute call fails instead of
\* returning a config (it never completes, and as long as it has not failed it
\* has a step to take), and the malformed document is never written.
C8_MalformedIsFatal ==
    (runNo > 0 /\ startStore.kind = "malformed") =>
        /\ store = startStore
        /\ pc # "done"
        /\ result.kind # "config"
        /\ pc # "failed" => ENABLED Proceed

\* A second call failed on the malformed record after a task had been started
C8_Witness ==
    /\ startStore.kind = "malformed"
    /\ runNo = 2
    /\ pc = "failed"
    /\ trace # <<>>

-----------------------------------------------------------------------------
(* Claims about the store *)

\* The record before and after the saveContractConfig call that just returned
Before == getDeployConfig(startStore).contracts
After == getDeployConfig(store).contracts

\* Fields the call supplies: address always, implementation and transaction
\* when the argument or the handle's transaction is defined
Supplied ==
    {"address"} \cup (IF saveArgs.impl = {} THEN {} ELSE {"implementation"})
                \cup (IF saveArgs.receipt = {} THEN {} ELSE {"transaction"})

OldFields == IF saveArgs.name \in DOMAIN Before THEN DOMAIN Before[saveArgs.name] ELSE {}

\* Everything the call does not supply is what it was
FramePreserved ==
    /\ DOMAIN After = (DOMAIN Before) \cup {saveArgs.name}
    /\ \A m \in (DOMAIN Before) \ {saveArgs.name} : After[m] = Before[m]
    /\ DOMAIN After[saveArgs.name] = OldFields \cup Supplied
    /\ \A f \in OldFields \ Supplied : After[saveArgs.name][f] = Before[saveArgs.name][f]

AddressAndImplSaved ==
    /\ After[saveArgs.name]["address"] = saveArgs.address
    /\ \A a \in saveArgs.impl : After[saveArgs.name]["implementation"] = a

\* C5 as stated: the saved entry has the handle's address, impl and the awaited
\* receipt; every other entry and every field not supplied is what it was.
C5_SavedEntryIsReceipt ==
    result.kind = "saved" =>
        /\ AddressAndImplSaved
        /\ \A r \in saveArgs.receipt : After[saveArgs.name]["transaction"] = r
        /\ FramePreserved

\* C5 amended: the saved entry has the handle's address and impl, and its
\* transaction is the awaited receipt merged into the previous one: the block
\* number and the log positions of the receipt, then the previous receipt's
\* logs at the positions the new receipt does not have; every other entry and
\* every field not supplied is what it was.
C5_SavedEntryIsMergedReceipt ==
    result.kind = "saved" =>
        /\ AddressAndImplSaved
        /\ \A r \in saveArgs.receipt :
              LET t == After[saveArgs.name]["transaction"]
                  oldLogs == IF "transaction" \in OldFields
                             THEN Before[saveArgs.name]["transaction"].logs ELSE <<>>
              IN  /\ t.blockNumber = r.blockNumber
                  /\ Len(t.logs) = Max(Len(r.logs), Len(oldLogs))
                  /\ \A k \in DOMAIN r.logs : t.logs[k] = r.logs[k]
                  /\ \A k \in (DOMAIN t.logs) \ (DOMAIN r.logs) : t.logs[k] = oldLogs[k]
        /\ FramePreserved

\* A save with a receipt over a record that held a longer receipt, other
\* fields and other programs
C5_Witness ==
    /\ result.kind = "saved"
    /\ saveArgs.name = "UNSRegistry"
    /\ saveArgs.receipt # {}
    /\ saveArgs.impl = {}
    /\ "CNSRegistry" \in DOMAIN Before
    /\ "implementation" \in OldFields
    /\ "transaction" \in OldFields
    /\ \E r \in saveArgs.receipt :
          Len(r.logs) < Len(Before["UNSRegistry"]["transaction"].logs)

IsPrefix(a, b) == Len(a) <= Len(b) /\ \A k \in DOMAIN a : b[k] = a[k]

\* C6: legacyAddresses of a program's record is append-only: every legacy
\* address listed before a step is listed after it, at the same position.
C6_LegacyAppendOnly ==
    [][\A n \in DOMAIN getDeployConfig(store).contracts :
          /\ n \in DOMAIN getDeployConfig(store').contracts
          /\ IsPrefix(legacyAddressesOfRecord(getDeployConfig(store).contracts[n]),
                      legacyAddressesOfRecord(getDeployConfig(store').contracts[n]))]_vars

\* Two saves, the last with a receipt, over a record that lists legacy addresses
C6_Witness ==
    /\ result.kind = "saved"
    /\ runNo = 2
    /\ saveArgs.name = "UNSRegistry"
    /\ saveArgs.receipt # {}
    /\ "UNSRegistry" \in DOMAIN Before
    /\ After["UNSRegistry"]["address"] = saveArgs.address
    /\ legacyAddressesOfRecord(Before["UNSRegistry"]) = <<14, 15>>
    /\ legacyAddressesOfRecord(After["UNSRegistry"]) = <<14, 15>>

HexDigitValue(c) == (CHOOSE k \in DOMAIN HexDigits : HexDigits[k] = c) - 1

RECURSIVE HexValue(_)
HexValue(q) ==
    IF q = <<>> THEN 0
    ELSE 16 * HexValue(SubSeq(q, 1, Len(q) - 1)) + HexDigitValue(q[Len(q)])

\* The number a "0x..." string denotes
ParseHex(h) == HexValue(SubSeq(h, 3, Len(h)))

\* C7: getNetworkConfig does not fail on an absent or empty store and returns
\* one network key, the chain id, with one entry per program of the record;
\* each entry has the recorded address, the record's legacyAddresses (empty
\* when it has none) and deploymentBlock the hex form of the receipt's block
\* number, "0x0" without a receipt.
C7_NetworkConfigProjection ==
    /\ (result.kind = "error" /\ saveArgs = NoArgs) => store.kind = "malformed"
    /\ result.kind = "config" =>
          /\ DOMAIN result.networks = {ChainId}
          /\ LET view == result.networks[ChainId].contracts
                 rec == getDeployConfig(store).contracts
             IN  /\ DOMAIN view = DOMAIN rec
                 /\ store.kind \in {"absent", "empty"} => DOMAIN view = {}
                 /\ \A n \in DOMAIN rec :
                       /\ "address" \in DOMAIN rec[n] => view[n]["address"] = rec[n]["address"]
                       /\ view[n]["legacyAddresses"] = legacyAddressesOfRecord(rec[n])
                       /\ IF "transaction" \in DOMAIN rec[n]
                          THEN /\ SubSeq(view[n]["deploymentBlock"], 1, 2) = <<"0", "x">>
                               /\ ParseHex(view[n]["deploymentBlock"])
                                     = rec[n]["transaction"].blockNumber
                          ELSE view[n]["deploymentBlock"] = <<"0", "x", "0">>

-----------------------------------------------------------------------------
(* MintingManager: the external functions *)

Callers == {"minter", "user"}
Recipient == "bob"
labelA == <<"a">>

\* Arguments the callers pass
TldPool == {CryptoTld, CoinTld, OtherTld}
LabelPool == {<<>>, labelA, FreePrefix \o labelA}
ClaimLabelPool == {<<>>, labelA}
KeysPool == {<<>>, <<"k">>}

MintFamily == {"mintSLD", "safeMintSLD", "safeMintSLDData", "mintSLDWithRecords",
               "safeMintSLDWithRecords", "safeMintSLDWithRecordsData"}
ClaimFamily == {"claim", "claimTo", "claimToWithRecords"}

\* Number of names the callers minted (the TLDs minted by initialize are not
\* counted)
Minted(w) ==
    Cardinality(DOMAIN w.cns) + Cardinality((DOMAIN w.uns) \ {WalletTld, CoinTld})

\* The effect of one external call: all of it, or nothing but the revert
ApplyCall(op, sel, sender, tld, label, out) ==
    /\ out.ok => Minted(out.w) <= MaxMints
    /\ unsTokens' = out.w.uns
    /\ cnsTokens' = out.w.cns
    /\ cnsRecords' = out.w.rec
    /\ mints' = IF out.ok THEN mints + 1 ELSE mints
    /\ last' = [op |-> op, sender |-> sender, sel |-> sel, tld |-> tld,
                label |-> label, ok |-> out.ok, reason |-> out.reason]
    /\ UNCHANGED <<initialized, owner, tlds, minters, resolver>>
    /\ UNCHANGED deployerVars

Apply(op, sender, tld, label, out) == ApplyCall(op, NoSelector, sender, tld, label, out)

InitializeNoExistsCheck(sender) ==
    /\ IF initialized
       THEN /\ last' = [NoCall EXCEPT !.op = "initialize", !.sender = sender,
                                      !.reason = "Initializable: ALREADY_INITIALIZED"]
            /\ UNCHANGED <<initialized, owner, tlds, minters, unsTokens, resolver>>
       ELSE IF {WalletTld, CoinTld} \cap DOMAIN unsTokens # {}
       THEN /\ last' = [NoCall EXCEPT !.op = "initialize", !.sender = sender,
                                      !.reason = "Registry: TOKEN_ALREADY_MINTED"]
            /\ UNCHANGED <<initialized, owner, tlds, minters, unsTokens, resolver>>
       ELSE /\ initialized' = TRUE
            /\ resolver' = GoodResolver
            /\ owner' = {sender}
            /\ minters' = minters \cup {This}
            /\ tlds' = [t \in {CryptoTld, WalletTld, CoinTld} |->
                           IF t = CryptoTld THEN labelCrypto
                           ELSE IF t = WalletTld THEN labelWallet ELSE labelCoin]
            /\ unsTokens' =
                  [id \in (DOMAIN unsTokens) \cup {WalletTld, CoinTld} |->
                      [owner |-> Dead, keys |-> <<>>]]
            /\ last' = [NoCall EXCEPT !.op = "initialize", !.sender = sender, !.ok = TRUE]
    /\ UNCHANGED <<cnsTokens, cnsRecords, mints>>
    /\ UNCHANGED deployerVars

\* initialize(unsRegistry, cryptoMinter, cryptoResolver), guarded by `initializer`
Initialize(sender) ==
    /\ IF initialized
       THEN /\ last' = [NoCall EXCEPT !.op = "initialize", !.sender = sender,
                                      !.reason = "Initializable: ALREADY_INITIALIZED"]
            /\ UNCHANGED <<initialized, owner, tlds, minters, unsTokens, resolver>>
       ELSE /\ initialized' = TRUE
            /\ resolver' = GoodResolver
            /\ owner' = {sender}
            /\ minters' = minters \cup {This}
            /\ tlds' = [t \in {CryptoTld, WalletTld, CoinTld} |->
                           IF t = CryptoTld THEN labelCrypto
                           ELSE IF t = WalletTld THEN labelWallet ELSE labelCoin]
            /\ unsTokens' =
                  [id \in (DOMAIN unsTokens) \cup {WalletTld, CoinTld} |->
                      IF id \in DOMAIN unsTokens THEN unsTokens[id]
                      ELSE [owner |-> Dead, keys |-> <<>>]]
            /\ last' = [NoCall EXCEPT !.op = "initialize", !.sender = sender, !.ok = TRUE]
    /\ UNCHANGED <<cnsTokens, cnsRecords, mints>>
    /\ UNCHANGED deployerVars

\* addMinter(account) of MinterRole, for the owner only
AddMinter(sender, account) ==
    /\ IF sender \in owner
       THEN /\ minters' = minters \cup {account}
            /\ last' = [NoCall EXCEPT !.op = "addMinter", !.sender = sender, !.ok = TRUE]
       ELSE /\ last' = [NoCall EXCEPT !.op = "addMinter", !.sender = sender,
                                      !.reason = "Ownable: CALLER_IS_NOT_OWNER"]
            /\ UNCHANGED minters
    /\ UNCHANGED <<initialized, owner, tlds, unsTokens, cnsTokens, cnsRecords,
                   resolver, mints>>
    /\ UNCHANGED deployerVars

\* removeMinter(account) of MinterRole, for the owner only
RemoveMinter(sender, account) ==
    /\ IF sender \in owner
       THEN /\ minters' = minters \ {account}
            /\ last' = [NoCall EXCEPT !.op = "removeMinter", !.sender = sender, !.ok = TRUE]
       ELSE /\ last' = [NoCall EXCEPT !.op = "removeMinter", !.sender = sender,
                                      !.reason = "Ownable: CALLER_IS_NOT_OWNER"]
            /\ UNCHANGED minters
    /\ UNCHANGED <<initialized, owner, tlds, unsTokens, cnsTokens, cnsRecords,
                   resolver, mints>>
    /\ UNCHANGED deployerVars

MintSLD(sender, to, tld, label) ==
    Apply("mintSLD", sender, tld, label,
          Guarded(sender, tld, TRUE, mintSLDPrivate(to, tld, label)))

SafeMintSLD(sender, to, tld, label) ==
    Apply("safeMintSLD", sender, tld, label,
          Guarded(sender, tld, TRUE, mintSLDPrivate(to, tld, label)))

\* safeMintSLD(to, tld, label, _data)
SafeMintSLDData(sender, to, tld, label) ==
    Apply("safeMintSLDData", sender, tld, label,
          Guarded(sender, tld, TRUE, mintSLDPrivate(to, tld, label)))

MintSLDWithRecords(sender, to, tld, label, keys) ==
    Apply("mintSLDWithRecords", sender, tld, label,
          Guarded(sender, tld, TRUE,
                  mintSLDWithRecordsPrivate(to, tld, label, keys)))

SafeMintSLDWithRecords(sender, to, tld, label, keys) ==
    Apply("safeMintSLDWithRecords", sender, tld, label,
          Guarded(sender, tld, TRUE,
                  mintSLDWithRecordsPrivate(to, tld, label, keys)))

\* safeMintSLDWithRecords(to, tld, label, keys, values, _data)
SafeMintSLDWithRecordsData(sender, to, tld, label, keys) ==
    Apply("safeMintSLDWithRecordsData", sender, tld, label,
          Guarded(sender, tld, TRUE,
                  mintSLDWithRecordsPrivate(to, tld, label, keys)))

Claim(sender, tld, label) ==
    Apply("claim", sender, tld, label,
          Guarded(sender, tld, FALSE,
                  mintSLDPrivate(sender, tld, freeSLDLabel(label))))

ClaimTo(sender, to, tld, label) ==
    Apply("claimTo", sender, tld, label,
          Guarded(sender, tld, FALSE,
                  mintSLDPrivate(to, tld, freeSLDLabel(label))))

ClaimToWithRecords(sender, to, tld, label, keys) ==
    Apply("claimToWithRecords", sender, tld, label,
          Guarded(sender, tld, FALSE,
                  mintSLDWithRecordsPrivate(to, tld, freeSLDLabel(label), keys)))

InitMinting ==
    /\ InitDeployer("none", {Absent})
    /\ InitRouter(EmptyObj)

NextMinting ==
    \/ Initialize("deployer")
    \/ \E sender \in {"deployer", "user"} : AddMinter(sender, "minter")
    \/ \E sender \in {"deployer", "user"} : RemoveMinter(sender, "minter")
    \/ \E sender \in Callers, tld \in TldPool, label \in LabelPool :
          MintSLD(sender, Recipient, tld, label)
    \/ \E sender \in Callers, tld \in TldPool, label \in LabelPool :
          SafeMintSLD(sender, Recipient, tld, label)
    \/ \E sender \in Callers, tld \in TldPool, label \in LabelPool :
          SafeMintSLDData(sender, Recipient, tld, label)
    \/ \E sender \in Callers, tld \in TldPool, label \in LabelPool, keys \in KeysPool :
          MintSLDWithRecords(sender, Recipient, tld, label, keys)
    \/ \E sender \in Callers, tld \in TldPool, label \in LabelPool, keys \in KeysPool :
          SafeMintSLDWithRecords(sender, Recipient, tld, label, keys)
    \/ \E sender \in Callers, tld \in TldPool, label \in LabelPool, keys \in KeysPool :
          SafeMintSLDWithRecordsData(sender, Recipient, tld, label, keys)
    \/ \E sender \in Callers, tld \in TldPool, label \in ClaimLabelPool :
          Claim(sender, tld, label)
    \/ \E sender \in Callers, tld \in TldPool, label \in ClaimLabelPool :
          ClaimTo(sender, Recipient, tld, label)
    \/ \E sender \in Callers, tld \in TldPool, label \in ClaimLabelPool, keys \in KeysPool :
          ClaimToWithRecords(sender, Recipient, tld, label, keys)

\* The router called by minters and users
SpecMinting == InitMinting /\ [][NextMinting]_vars

-----------------------------------------------------------------------------
(* MintingManager: initialization against a registry that holds names *)

Holder == "alice"

\* Registries initialize may be given: empty, holding wallet, holding wallet
\* and coin
HeldPool ==
    {EmptyObj,
     [id \in {WalletTld} |-> [owner |-> Holder, keys |-> <<>>]],
     [id \in {WalletTld, CoinTld} |-> [owner |-> Holder, keys |-> <<>>]]}

InitInitialize ==
    /\ InitDeployer("none", {Absent})
    /\ \E held \in HeldPool : InitRouter(held)

\* Every entrypoint, called for one name under a registered and under an
\* unregistered TLD
NextInitialize ==
    \/ \E sender \in {"deployer", "user"} : Initialize(sender)
    \/ \E sender \in {"deployer", "user"} : AddMinter(sender, "minter")
    \/ \E sender \in {"deployer", "user"} : RemoveMinter(sender, "minter")
    \/ \E sender \in Callers, tld \in {CoinTld, OtherTld} :
          MintSLD(sender, Recipient, tld, labelA)
    \/ \E sender \in Callers, tld \in {CoinTld, OtherTld} :
          SafeMintSLD(sender, Recipient, tld, labelA)
    \/ \E sender \in Callers, tld \in {CoinTld, OtherTld} :
          SafeMintSLDData(sender, Recipient, tld, labelA)
    \/ \E sender \in Callers, tld \in {CoinTld, OtherTld} :
          MintSLDWithRecords(sender, Recipient, tld, labelA, <<>>)
    \/ \E sender \in Callers, tld \in {CoinTld, OtherTld} :
          SafeMintSLDWithRecords(sender, Recipient, tld, labelA, <<>>)
    \/ \E sender \in Callers, tld \in {CoinTld, OtherTld} :
          SafeMintSLDWithRecordsData(sender, Recipient, tld, labelA, <<>>)
    \/ \E sender \in Callers, tld \in {CoinTld, OtherTld} :
          Claim(sender, tld, labelA)
    \/ \E sender \in Callers, tld \in {CoinTld, OtherTld} :
          ClaimTo(sender, Recipient, tld, labelA)
    \/ \E sender \in Callers, tld \in {CoinTld, OtherTld} :
          ClaimToWithRecords(sender, Recipient, tld, labelA, <<>>)

\* The router initialized against a registry that may hold the TLDs already
SpecInitialize == InitInitialize /\ [][NextInitialize]_vars

-----------------------------------------------------------------------------
(* MintingManager: mints with records while the owner changes the resolver *)

\* setResolver(resolver), guarded by onlyOwner
SetResolver(sender, r) ==
    /\ IF sender \in owner
       THEN /\ resolver' = r
            /\ last' = [NoCall EXCEPT !.op = "setResolver", !.sender = sender, !.ok = TRUE]
       ELSE /\ last' = [NoCall EXCEPT !.op = "setResolver", !.sender = sender,
                                      !.reason = "Ownable: CALLER_IS_NOT_OWNER"]
            /\ UNCHANGED resolver
    /\ UNCHANGED <<initialized, owner, tlds, minters, unsTokens, cnsTokens,
                   cnsRecords, mints>>
    /\ UNCHANGED deployerVars

\* The non-empty keys of the mints with records
RecordKeys == <<"k">>

NextRecords ==
    \/ Initialize("deployer")
    \/ \E sender \in {"deployer", "user"} : AddMinter(sender, "minter")
    \/ \E sender \in {"deployer", "user"} : RemoveMinter(sender, "minter")
    \/ \E sender \in {"deployer", "user"}, r \in {GoodResolver, BadResolver} :
          SetResolver(sender, r)
    \/ \E sender \in Callers, tld \in {CryptoTld, CoinTld} :
          MintSLDWithRecords(sender, Recipient, tld, labelA, RecordKeys)
    \/ \E sender \in Callers, tld \in {CryptoTld, CoinTld} :
          SafeMintSLDWithRecords(sender, Recipient, tld, labelA, RecordKeys)
    \/ \E sender \in Callers, tld \in {CryptoTld, CoinTld} :
          SafeMintSLDWithRecordsData(sender, Recipient, tld, labelA, RecordKeys)
    \/ \E sender \in Callers, tld \in {CryptoTld, CoinTld} :
          ClaimToWithRecords(sender, Recipient, tld, labelA, RecordKeys)

\* The router minting names with records under a resolver the owner may replace
SpecRecords == InitMinting /\ [][NextRecords]_vars

-----------------------------------------------------------------------------
(* MintingManager: relayed calls *)

\* The six selectors _verifyRelayCall compares with
SupportedSelectors == {SigMint, SigSafeMint, SigSafeMintData, SigMintWithRecords,
                       SigSafeMintWithRecords, SigSafeMintWithRecordsData}

\* Selectors a relayed call may carry
SelectorPool == SupportedSelectors \cup {SigClaim, SigSetResolver}

\* The call the relayer makes on the router itself: msg.sender is address(this)
RelayedCall(funcSig, to, tld, label, keys) ==
    IF funcSig \in {SigMint, SigSafeMint, SigSafeMintData}
    THEN Guarded(This, tld, TRUE, mintSLDPrivate(to, tld, label))
    ELSE IF funcSig \in {SigMintWithRecords, SigSafeMintWithRecords,
                         SigSafeMintWithRecordsData}
    THEN Guarded(This, tld, TRUE, mintSLDWithRecordsPrivate(to, tld, label, keys))
    ELSE IF funcSig = SigClaim
    THEN Guarded(This, tld, FALSE, mintSLDPrivate(This, tld, freeSLDLabel(label)))
    ELSE IF This \in owner THEN Ok(World)
    ELSE Revert("Ownable: CALLER_IS_NOT_OWNER")

\* relay(data, signature) of Relayer: the signer check, the selector check,
\* then the call
Relay(signer, funcSig, to, tld, label, keys) ==
    ApplyCall("relay", funcSig, signer, tld, label,
              IF ~verifyRelaySigner(signer)
              THEN Revert("MintingManager: SIGNER_IS_NOT_MINTER")
              ELSE IF ~verifyRelayCall(funcSig)
              THEN Revert("MintingManager: UNSUPPORTED_RELAY_CALL")
              ELSE RelayedCall(funcSig, to, tld, label, keys))

NextRelay ==
    \/ Initialize("deployer")
    \/ \E sender \in {"deployer", "user"} : AddMinter(sender, "minter")
    \/ \E sender \in {"deployer", "user"} : RemoveMinter(sender, "minter")
    \/ \E signer \in Callers, funcSig \in SelectorPool, tld \in TldPool, keys \in KeysPool :
          Relay(signer, funcSig, Recipient, tld, labelA, keys)

\* The router called through its relayer
SpecRelay == InitMinting /\ [][NextRelay]_vars

-----------------------------------------------------------------------------
(* Claims about the mint and claim entrypoints *)

\* The step is a call of one of the functions `ops`
Called(ops) == last'.op \in ops

\* The step mints nothing, on the primary registry or the legacy subsystem
MintsNothing ==
    /\ unsTokens' = unsTokens
    /\ cnsTokens' = cnsTokens
    /\ cnsRecords' = cnsRecords

\* C9 as stated: every mint and claim entrypoint of the initialized router
\* called with a TLD outside the registered set fails with the reason
\* TLD_NOT_VALID and mints nothing.
C9_UnregisteredTldReason ==
    [][(initialized /\ Called(MintFamily \cup ClaimFamily) /\ last'.tld \notin DOMAIN tlds) =>
          /\ ~last'.ok
          /\ last'.reason = "MintingManager: TLD_NOT_VALID"
          /\ MintsNothing]_vars

\* C9 amended: every mint and claim entrypoint called with a TLD outside the
\* registered set fails and mints nothing; the reason is TLD_NOT_VALID for the
\* claim entrypoints and for a mint entrypoint called by a holder of the
\* minting role, while a mint entrypoint called by anyone else fails on the
\* role check, which comes first.
C9_UnregisteredTldFails ==
    [][(Called(MintFamily \cup ClaimFamily) /\ last'.tld \notin DOMAIN tlds) =>
          /\ ~last'.ok
          /\ MintsNothing
          /\ IF last'.op \in ClaimFamily \/ last'.sender \in minters
             THEN last'.reason = "MintingManager: TLD_NOT_VALID"
             ELSE last'.reason = "MinterRole: CALLER_IS_NOT_MINTER"]_vars

\* A holder of the minting role called a mint entrypoint of the initialized
\* router with an unregistered TLD, and the call was refused for the TLD
C9_Witness ==
    /\ initialized
    /\ last.op \in MintFamily
    /\ last.sender \in minters
    /\ last.tld = OtherTld
    /\ last.tld \notin DOMAIN tlds
    /\ ~last.ok
    /\ last.reason = "MintingManager: TLD_NOT_VALID"

\* The name a claim of `label` under `tld` stands for is not minted yet
ClaimTargetFree(tld, label) ==
    IF tld = CryptoTld
    THEN (FreePrefix \o label) \notin DOMAIN cnsTokens
    ELSE Hash(tld, FreePrefix \o label) \notin DOMAIN unsTokens

\* C10: a mint entrypoint called by an address outside the minter set fails
\* and mints nothing; a claim entrypoint does not look at the caller's role:
\* it succeeds exactly when the TLD is registered and the name is not minted.
C10_MinterOnly ==
    [][/\ (Called(MintFamily) /\ last'.sender \notin minters) =>
              (~last'.ok /\ MintsNothing)
       /\ Called(ClaimFamily) =>
              (last'.ok <=> (/\ last'.tld \in DOMAIN tlds
                             /\ ClaimTargetFree(last'.tld, last'.label)))]_vars

\* A caller outside the minter set claimed a name and owns it
C10_Witness ==
    /\ last.op = "claim"
    /\ last.ok
    /\ last.sender \notin minters
    /\ last.tld = CoinTld
    /\ Hash(CoinTld, FreePrefix \o last.label) \in DOMAIN unsTokens
    /\ unsTokens[Hash(CoinTld, FreePrefix \o last.label)].owner = last.sender

\* The label a call mints under: the label passed to a mint function, the
\* prefixed label for a claim function
MintedLabel(op, label) == IF op \in ClaimFamily THEN FreePrefix \o label ELSE label

\* C11: every successful mint or claim call mints on exactly one subsystem:
\* for the TLD crypto the legacy minter, under the label, and nothing on the
\* primary registry; for any other TLD the primary registry, under the id
\* Hash(tld, label), and nothing on the legacy minter.
C11_Routing ==
    [][(Called(MintFamily \cup ClaimFamily) /\ last'.ok) =>
          LET l == MintedLabel(last'.op, last'.label)
              id == Hash(last'.tld, l)
          IN  IF last'.tld = CryptoTld
              THEN /\ unsTokens' = unsTokens
                   /\ l \notin DOMAIN cnsTokens
                   /\ DOMAIN cnsTokens' = (DOMAIN cnsTokens) \cup {l}
              ELSE /\ cnsTokens' = cnsTokens
                   /\ cnsRecords' = cnsRecords
                   /\ id \notin DOMAIN unsTokens
                   /\ DOMAIN unsTokens' = (DOMAIN unsTokens) \cup {id}]_vars

\* After initialization mintSLD(bob, coin, "a") minted Hash(coin, "a") for bob on
\* the primary registry and nothing on the legacy minter
C11_Witness ==
    /\ initialized
    /\ last.op = "mintSLD"
    /\ last.ok
    /\ last.tld = CoinTld
    /\ last.label = labelA
    /\ Hash(CoinTld, labelA) \in DOMAIN unsTokens
    /\ unsTokens[Hash(CoinTld, labelA)].owner = Recipient
    /\ cnsTokens = EmptyObj

\* The names a step mints
NewUns == (DOMAIN unsTokens') \ DOMAIN unsTokens
NewCns == (DOMAIN cnsTokens') \ DOMAIN cnsTokens

\* C13: a successful claim, claimTo or claimToWithRecords with label L mints
\* the name of 'udtestdev-' + L and not the name of L, whoever calls.
C13_ClaimMintsPrefixed ==
    [][(Called(ClaimFamily) /\ last'.ok) =>
          IF last'.tld = CryptoTld
          THEN /\ NewCns = {FreePrefix \o last'.label}
               /\ NewUns = {}
          ELSE /\ NewUns = {Hash(last'.tld, FreePrefix \o last'.label)}
               /\ NewCns = {}]_vars

\* A holder of the minting role claimed "a" under coin: the prefixed name is
\* minted, the raw one is not
C13_Witness ==
    /\ last.op \in ClaimFamily
    /\ last.ok
    /\ last.sender \in minters
    /\ last.tld = CoinTld
    /\ last.label = labelA
    /\ Hash(CoinTld, FreePrefix \o labelA) \in DOMAIN unsTokens
    /\ Hash(CoinTld, labelA) \notin DOMAIN unsTokens

\* The caller may use the function: any caller for a claim function, a holder
\* of the minting role for a mint function
Authorized == last'.op \in MintFamily => last'.sender \in minters

\* C12: every mint and claim entrypoint called (by a caller allowed to use it)
\* with a registered TLD and an empty label fails with the reason LABEL_EMPTY
\* and mints nothing, on the legacy route and on the primary route.
C12_EmptyLabelFails ==
    [][(/\ Called(MintFamily \cup ClaimFamily)
        /\ Authorized
        /\ last'.tld \in DOMAIN tlds
        /\ last'.label = <<>>) =>
          /\ ~last'.ok
          /\ last'.reason = "MintingManager: LABEL_EMPTY"
          /\ MintsNothing]_vars

AlreadyMinted == {"Registry: TOKEN_ALREADY_MINTED", "CNS: TOKEN_ALREADY_MINTED"}

\* Callers that never hold the minting role; a name they own was minted to
\* them by claim, the only function that mints to its caller without the role
Outsiders == Callers \ {"minter"}

\* C14: a name minted through a claim function by a caller without the
\* minting role is never the name of a mint-family call by a holder of the
\* role: no such call fails as already minted because of a claim.
C14_ClaimsNeverCollide ==
    [][(/\ Called(MintFamily)
        /\ last'.sender \in minters
        /\ ~last'.ok
        /\ last'.reason \in AlreadyMinted) =>
          IF last'.tld = CryptoTld
          THEN cnsTokens[last'.label] \notin Outsiders
          ELSE unsTokens[Hash(last'.tld, last'.label)].owner \notin Outsiders]_vars

\* C15: a relayed call whose signer does not hold the minting role fails with
\* SIGNER_IS_NOT_MINTER whatever its selector; one whose signer holds the role
\* and whose selector is not one of the six mint selectors fails with
\* UNSUPPORTED_RELAY_CALL; both mint nothing; with a signer holding the role
\* each of the six selectors passes both checks.
C15_RelayAuthorization ==
    [][Called({"relay"}) =>
          /\ last'.sender \notin minters =>
                /\ ~last'.ok
                /\ last'.reason = "MintingManager: SIGNER_IS_NOT_MINTER"
                /\ MintsNothing
          /\ (last'.sender \in minters /\ last'.sel \notin SupportedSelectors) =>
                /\ ~last'.ok
                /\ last'.reason = "MintingManager: UNSUPPORTED_RELAY_CALL"
                /\ MintsNothing
          /\ (last'.sender \in minters /\ last'.sel \in SupportedSelectors) =>
                last'.reason \notin {"MintingManager: SIGNER_IS_NOT_MINTER",
                                     "MintingManager: UNSUPPORTED_RELAY_CALL"}]_vars

\* A holder of the minting role signed a relayed claim, which was refused for
\* its selector
C15_Witness ==
    /\ last.op = "relay"
    /\ last.sender \in minters
    /\ last.sel = SigClaim
    /\ ~last.ok
    /\ last.reason = "MintingManager: UNSUPPORTED_RELAY_CALL"
    /\ mints = 0

\* The name the call of this step resolves to is minted already
TargetMinted ==
    IF last'.tld = CryptoTld
    THEN MintedLabel(last'.op, last'.label) \in DOMAIN cnsTokens
    ELSE Hash(last'.tld, MintedLabel(last'.op, last'.label)) \in DOMAIN unsTokens

\* C16: a minted name stays minted, with its owner and records, whatever the
\* router is called with, and a mint or claim that resolves to a name already
\* minted fails.
C16_MintedIsTerminal ==
    [][/\ \A id \in DOMAIN unsTokens :
              id \in DOMAIN unsTokens' /\ unsTokens'[id] = unsTokens[id]
       /\ \A l \in DOMAIN cnsTokens :
              l \in DOMAIN cnsTokens' /\ cnsTokens'[l] = cnsTokens[l]
       /\ \A id \in DOMAIN cnsRecords :
              id \in DOMAIN cnsRecords' /\ cnsRecords'[id] = cnsRecords[id]
       /\ (Called(MintFamily \cup ClaimFamily) /\ TargetMinted) => ~last'.ok]_vars

\* A second mintSLD(bob, coin, "a") by a minter failed as already minted
C16_Witness ==
    /\ last.op = "mintSLD"
    /\ last.sender \in minters
    /\ last.tld = CoinTld
    /\ last.label = labelA
    /\ ~last.ok
    /\ last.reason = "Registry: TOKEN_ALREADY_MINTED"
    /\ Hash(CoinTld, labelA) \in DOMAIN unsTokens
    /\ unsTokens[Hash(CoinTld, labelA)].owner = Recipient

\* C17: the first initialize succeeds, registers exactly crypto, wallet and
\* coin, leaves every name the registry holds as it is and mints wallet and
\* coin to the burn address only where the registry does not hold them; an
\* initialize call on an initialized router fails and changes nothing; no
\* other call changes the registered TLDs.
C17_InitializeOnce ==
    [][/\ (Called({"initialize"}) /\ ~initialized) =>
              /\ last'.ok
              /\ initialized'
              /\ DOMAIN tlds' = {CryptoTld, WalletTld, CoinTld}
              /\ tlds'[CryptoTld] = labelCrypto
              /\ tlds'[WalletTld] = labelWallet
              /\ tlds'[CoinTld] = labelCoin
              /\ DOMAIN unsTokens' = (DOMAIN unsTokens) \cup {WalletTld, CoinTld}
              /\ \A id \in DOMAIN unsTokens : unsTokens'[id] = unsTokens[id]
              /\ \A id \in {WalletTld, CoinTld} \ DOMAIN unsTokens :
                    unsTokens'[id].owner = Dead
       /\ (Called({"initialize"}) /\ initialized) =>
              /\ ~last'.ok
              /\ UNCHANGED <<initialized, owner, tlds, minters, unsTokens,
                             cnsTokens, cnsRecords, resolver>>
       /\ ~(Called({"initialize"}) /\ ~initialized) => tlds' = tlds]_vars

\* A second initialize failed on a router initialized against a registry that
\* held wallet: wallet is still the holder's, coin went to the burn address,
\* and a name was minted since
C17_Witness ==
    /\ initialized
    /\ last.op = "initialize"
    /\ ~last.ok
    /\ DOMAIN tlds = {CryptoTld, WalletTld, CoinTld}
    /\ unsTokens[WalletTld].owner = Holder
    /\ unsTokens[CoinTld].owner = Dead
    /\ mints = 1

\* Each session has completed one saveContractConfig call, for different
\* programs
BothSaved ==
    /\ runNo = 1
    /\ pc = "idle"
    /\ result.kind = "saved"
    /\ peer.pc = "done"
    /\ saveArgs.name # peer.args.name

\* C18: when two sessions have each saved a different program, the document
\* holds at least one of the two, and it lacks the other exactly when neither
\* call read the document after the other call's write (each call writes back
\* the document it read before its wait); such an interleaving exists.
C18_LostUpdate ==
    BothSaved =>
        LET mine == saveArgs.name
            theirs == peer.args.name
            read == DOMAIN getDeployConfig(startStore).contracts
            peerRead == DOMAIN peer.cfg
            held == DOMAIN store.contracts
        IN  /\ mine \in held \/ theirs \in held
            /\ (mine \in held /\ theirs \in held)
                  <=> (theirs \in read \/ mine \in peerRead)

\* Both calls completed and the document lacks one of the two programs
C18_Witness ==
    /\ BothSaved
    /\ saveArgs.receipt # {}
    /\ \E n \in {saveArgs.name, peer.args.name} : n \notin DOMAIN store.contracts

RecordsOps == {"mintSLDWithRecords", "safeMintSLDWithRecords",
               "safeMintSLDWithRecordsData", "claimToWithRecords"}

PreconfigureFailed ==
    /\ Called(RecordsOps)
    /\ last'.tld = CryptoTld
    /\ last'.reason = "Resolver: PRECONFIGURE_FAILED"

\* C19 as stated: when the record attachment fails after the legacy mint, the
\* name remains minted without its records.
C19_MintedWithoutRecords ==
    [][PreconfigureFailed =>
          /\ MintedLabel(last'.op, last'.label) \in DOMAIN cnsTokens'
          /\ childId(CryptoTld, MintedLabel(last'.op, last'.label)).id
                \notin DOMAIN cnsRecords']_vars

\* C19: a mint with non-empty keys routed to the legacy subsystem mints the
\* name first and attaches the records second, inside the same call: when the
\* attachment fails the call fails as a whole and the name is not minted; when
\* the call succeeds the name is minted and its records are attached.
C19_MintAndRecordsAtomic ==
    [][/\ PreconfigureFailed =>
              /\ ~last'.ok
              /\ MintsNothing
              /\ MintedLabel(last'.op, last'.label) \notin DOMAIN cnsTokens'
       /\ (Called(RecordsOps) /\ last'.tld = CryptoTld /\ last'.ok) =>
              LET label == MintedLabel(last'.op, last'.label)
                  id == childId(CryptoTld, label).id
              IN  /\ label \notin DOMAIN cnsTokens
                  /\ label \in DOMAIN cnsTokens'
                  /\ id \in DOMAIN cnsRecords'
                  /\ cnsRecords'[id] = RecordKeys]_vars

\* A mint with records failed in the record attachment and the name is not
\* minted
C19_Witness ==
    /\ last.op \in RecordsOps
    /\ last.tld = CryptoTld
    /\ last.reason = "Resolver: PRECONFIGURE_FAILED"
    /\ resolver = BadResolver
    /\ MintedLabel(last.op, last.label) \notin DOMAIN cnsTokens
    /\ cnsRecords = EmptyObj

\* C20: saveContractConfig writes nothing when it starts to wait for the
\* receipt; the write that ends the wait records the receipt obtained; a wait
\* that fails leaves the document exactly as it was and fails the running
\* task with the transaction's error; the only other write is that of a
\* program saved without a deployment transaction, which records no receipt.
C20_WriteAfterReceipt ==
    [][/\ (pc # "saveWait" /\ pc' = "saveWait") =>
              /\ store' = store
              /\ saveArgs'.receipt = {}
       /\ (pc = "saveWait" /\ pc' # "failed") =>
              /\ saveArgs'.receipt # {}
              /\ saveArgs.name \in DOMAIN store'.contracts
              /\ "transaction" \in DOMAIN store'.contracts[saveArgs.name]
              /\ store'.contracts[saveArgs.name]["transaction"].blockNumber
                    = saveArgs.block
       /\ (pc = "saveWait" /\ pc' = "failed") =>
              /\ store' = store
              /\ saveArgs'.receipt = {}
              /\ result' = Error("TransactionError")
       /\ (store' # store /\ pc # "saveWait") =>
              LET n == saveArgs'.name
                  old == getDeployConfig(store).contracts
                  e == store'.contracts[n]
              IN  /\ pc = "run"
                  /\ "transaction" \in DOMAIN e =>
                        /\ n \in DOMAIN old
                        /\ "transaction" \in DOMAIN old[n]
                        /\ old[n]["transaction"] = e["transaction"]]_vars

\* The wait for the receipt of a deployed program failed: the call failed with
\* the transaction's error and the document, as it was when the call started,
\* does not hold the program
C20_Witness ==
    /\ pc = "failed"
    /\ result = Error("TransactionError")
    /\ saveArgs.name \in deployed
    /\ saveArgs.receipt = {}
    /\ store = startStore
    /\ saveArgs.name \notin DOMAIN store.contracts

=============================================================================
